---- MODULE Spec2Model ----
(***************************************************************************)
(* MSC tracking automation: per-bill orchestrator get_eta_etd              *)
(* (src/src/msc_eta_scraper.py), batch runner run_once and reconciliation  *)
(* to_rows_and_changes (src/src/main.py).                                  *)
(*                                                                         *)
(* Python strings are modelled as sequences of one-character strings, so   *)
(* that strip(), lower(), the regular expression of _norm_desc and the     *)
(* digit filter of canon_date_str are computed character by character.     *)
(* Python None is the one-element tuple None, which is no string.          *)
(***************************************************************************)
EXTENDS Integers, Sequences, FiniteSets, TLC

\* ---------------------------------------------------------------- bounds
\* Bills of one batch, pages the remote source serves for one bill.
MaxBills == 3

MaxPages == 2

\* Containers of an aggregate and events of an aggregate, in the inputs of
\* the resolver.
MaxContainers == 2

MaxEvents == 2

\* Results handed to the reconciliation.
MaxRows == 2

\* ------------------------------------------------------- Python strings
None == <<"None">>

Truthy(x) == x # None /\ x # <<>>

UpperChars == <<"A","B","C","D","E","F","G","H","I","J","K","L","M","N","O","P","Q","R","S","T","U","V","W","X","Y","Z">>

LowerChars == <<"a","b","c","d","e","f","g","h","i","j","k","l","m","n","o","p","q","r","s","t","u","v","w","x","y","z">>

DigitChars == {"0","1","2","3","4","5","6","7","8","9"}

DigitSeq == <<"0","1","2","3","4","5","6","7","8","9">>

WhitespaceChars == {" "}

\* str.lower() of one character.
LowerChar(c) ==
    IF \E k \in 1..Len(UpperChars) : UpperChars[k] = c
    THEN LowerChars[CHOOSE k \in 1..Len(UpperChars) : UpperChars[k] = c]
    ELSE c

lower(s) == [k \in 1..Len(s) |-> LowerChar(s[k])]

RECURSIVE lstrip(_)
lstrip(s) ==
    IF s # <<>> /\ Head(s) \in WhitespaceChars THEN lstrip(Tail(s)) ELSE s

RECURSIVE rstrip(_)
rstrip(s) ==
    IF s # <<>> /\ s[Len(s)] \in WhitespaceChars
    THEN rstrip(SubSeq(s, 1, Len(s) - 1))
    ELSE s

strip(s) == rstrip(lstrip(s))

\* The idiom (x or "").strip()
OrEmptyStrip(x) == IF Truthy(x) THEN strip(x) ELSE <<>>

\* -------------------------------------------------- msc_eta_scraper.py
\* unicodedata.normalize("NFKD", c) of one character: an accented letter
\* decomposes into its base letter and a combining mark.
NFKD(c) ==
    CASE c = "é" -> <<"e", "´">>
      [] c = "É" -> <<"E", "´">>
      [] OTHER -> <<c>>

\* unicodedata.category(c) == "Mn"
IsMn(c) == c = "´"

RECURSIVE normalize(_)
normalize(s) ==
    IF ~Truthy(s) THEN <<>>
    ELSE LET d == NFKD(Head(s))
             kept == SelectSeq(d, LAMBDA c : ~IsMn(c))
         IN  lower(kept) \o normalize(Tail(s))

IsAlnumLower(c) ==
    \/ c \in DigitChars
    \/ \E k \in 1..Len(LowerChars) : LowerChars[k] = c

\* re.sub(r"[^a-z0-9]+", " ", s): every maximal run of other characters
\* becomes one space.
RECURSIVE SubNonAlnum(_)
SubNonAlnum(s) ==
    IF s = <<>> THEN <<>>
    ELSE IF IsAlnumLower(Head(s)) THEN <<Head(s)>> \o SubNonAlnum(Tail(s))
    ELSE IF Len(s) > 1 /\ ~IsAlnumLower(s[2]) THEN SubNonAlnum(Tail(s))
    ELSE <<" ">> \o SubNonAlnum(Tail(s))

_norm_desc(s) == strip(SubNonAlnum(normalize(IF Truthy(s) THEN s ELSE <<>>)))

EXPORT_LOADED == <<"e","x","p","o","r","t"," ","l","o","a","d","e","d"," ","o","n"," ","v","e","s","s","e","l">>

POD_ETA_ALIASES ==
    { <<"p","o","d"," ","e","t","a">>,
      <<"p","o","d"," ","e","t","a"," ","d","a","t","e">>,
      <<"e","t","a"," ","p","o","d">>,
      <<"p","o","d"," ","e","s","t","i","m","a","t","e","d"," ","t","i","m","e"," ","o","f"," ","a","r","r","i","v","a","l">>,
      <<"p","o","d"," ","e","s","t","i","m","a","t","e","d"," ","a","r","r","i","v","a","l">>,
      <<"p","o","d"," ","e","t","a"," ","a","t"," ","p","o","d">> }

IMPORT_TO_CONSIGNEE_ALIASES ==
    { <<"i","m","p","o","r","t"," ","t","o"," ","c","o","n","s","i","g","n","e","e">>,
      <<"i","m","p","o","r","t"," ","t","o"," ","c","o","n","s","i","g","n","e","e"," ","d","a","t","e">>,
      <<"i","m","p","o","r","t"," ","c","o","n","s","i","g","n","e","e">> }

\* The sentinel "Bilinmiyor" (Unknown).
Bilinmiyor == <<"B","i","l","i","n","m","i","y","o","r">>

\* Source labels (Kaynak).
SRC_POD_ETA == <<"P","O","D"," ","E","T","A">>

SRC_FINAL_POD_ETA == <<"F","i","n","a","l"," ","P","O","D"," ","E","T","A">>

SRC_CONTAINER_POD_ETA == <<"C","o","n","t","a","i","n","e","r"," ","P","O","D"," ","E","T","A">>

SRC_IMPORT == <<"I","m","p","o","r","t"," ","t","o"," ","c","o","n","s","i","g","n","e","e">>

\* Diagnostics. A log line is a pair <<prefix, text>>: the plain messages
\* have the prefix "", the f-strings f"Hata: {e}" and f"üst seviye hata: {e}"
\* pair their prefix with the raw error text e.
LOG_NO_BILLS == <<"", "BillOfLadings bos veya gelmedi.">>

LOG_NO_CONTAINERS == <<"", "Hic konteyner verisi alinamadi (tum sayfalar tarandi).">>

LOG_NO_ETD == <<"", "ETD icin 'export loaded on vessel' event'i bulunamadi.">>

LOG_NO_ETA == <<"", "ETA icin uygun event/alan bulunamadi.">>

ERR_NO_CONTAINERS == "ContainersInfo bos."

ERR_NONE_GET == "'NoneType' object has no attribute 'get'"

\* No exception was raised.
NoError == ""

Hata(e) == <<"Hata: ", e>>

UstSeviyeHata(e) == <<"ust seviye hata: ", e>>

\* Raw event descriptions as the source writes them.
DESC_EXPORT == <<"E","x","p","o","r","t"," ","L","o","a","d","e","d"," ","o","n"," ","V","e","s","s","e","l">>

DESC_POD_ETA == <<"P","O","D","-","E","T","A",".">>

DESC_IMPORT == <<" ","I","m","p","o","r","t"," "," ","t","o"," ","C","o","n","s","i","g","n","é","e">>

DESC_OTHER == <<"E","x","p","o","r","t"," ","L","o","a","d","e","d">>

RawDescriptions == {DESC_EXPORT, DESC_POD_ETA, DESC_IMPORT, DESC_OTHER}

\* _norm_desc(ev.get("Description")), tabulated once over the descriptions
\* the source serves.
NormDesc == [d \in RawDescriptions |-> _norm_desc(d)]

\* Dates of the events of the containers, in encounter order, whose
\* normalized description is one of phrases: the comprehension of lines
\* 118-123 and the loops of lines 131-134 and 148-151.
RECURSIVE EventDates(_, _)
EventDates(events, phrases) ==
    IF events = <<>> THEN <<>>
    ELSE (IF NormDesc[Head(events).Description] \in phrases
          THEN <<Head(events).Date>> ELSE <<>>)
         \o EventDates(Tail(events), phrases)

RECURSIVE ScanContainers(_, _)
ScanContainers(containers, phrases) ==
    IF containers = <<>> THEN <<>>
    ELSE EventDates(Head(containers).Events, phrases)
         \o ScanContainers(Tail(containers), phrases)

\* A variant taking the first match: etd = export_events[0]
PickEtdFirst(dates) == dates[1]

\* etd = export_events[-1]
PickEtd(dates) == dates[Len(dates)]

\* all_containers.extend(containers)
Extend(all, containers) == all \o containers

\* [c.get("PodEtaDate") for c in all_containers if c.get("PodEtaDate")]
ContainerEtas(containers) ==
    LET kept == SelectSeq(containers, LAMBDA c : Truthy(c.PodEtaDate))
    IN  [k \in 1..Len(kept) |-> kept[k].PodEtaDate]

\* general = bills[0].get("GeneralTrackingInfo", {}) if bills else {}
\* A summary is the record [kind, FinalPodEtaDate]: kind "object" is a JSON
\* object (FinalPodEtaDate None when the key is missing), kind "absent" is
\* a bill without the key (the default {}), kind "null" is JSON null.
EmptyGeneral == [kind |-> "object", FinalPodEtaDate |-> None]

GeneralOf(bills) ==
    IF bills = <<>> THEN EmptyGeneral
    ELSE IF bills[1].GeneralTrackingInfo.kind = "absent" THEN EmptyGeneral
    ELSE bills[1].GeneralTrackingInfo

\* Lines 129-155, reached when event_etas is empty: tiers 2 to 5.  The
\* result is [eta, kaynak, logs, raised]; raised is the text of the
\* exception that left the block, or NoError.
EtaFallback(all_containers, bills) ==
    LET general == GeneralOf(bills)
        container_etas == ContainerEtas(all_containers)
        import_events == ScanContainers(all_containers, IMPORT_TO_CONSIGNEE_ALIASES)
    IN  IF general.kind = "null"
        THEN [eta |-> Bilinmiyor, kaynak |-> Bilinmiyor, logs |-> <<>>,
              raised |-> ERR_NONE_GET]
        ELSE IF Truthy(general.FinalPodEtaDate)
        THEN [eta |-> general.FinalPodEtaDate, kaynak |-> SRC_FINAL_POD_ETA,
              logs |-> <<>>, raised |-> NoError]
        ELSE IF container_etas # <<>>
        THEN [eta |-> container_etas[1], kaynak |-> SRC_CONTAINER_POD_ETA,
              logs |-> <<>>, raised |-> NoError]
        ELSE IF import_events # <<>>
        THEN [eta |-> import_events[1], kaynak |-> SRC_IMPORT,
              logs |-> <<>>, raised |-> NoError]
        ELSE [eta |-> Bilinmiyor, kaynak |-> Bilinmiyor,
              logs |-> <<LOG_NO_ETA>>, raised |-> NoError]

\* Lines 117-155: ETD, then ETA, from the aggregate and the bills of the
\* last page fetched.  The locals start at their defaults of lines 56-59
\* and keep what was assigned before an exception leaves the block.
Resolve(all_containers, bills) ==
    LET export_events == ScanContainers(all_containers, {EXPORT_LOADED})
        etd == IF export_events # <<>> THEN PickEtd(export_events)
               ELSE Bilinmiyor
        logs1 == IF export_events # <<>> THEN <<>> ELSE <<LOG_NO_ETD>>
        event_etas == ScanContainers(all_containers, POD_ETA_ALIASES)
        fb == EtaFallback(all_containers, bills)
    IN  IF event_etas # <<>>
        THEN [eta |-> event_etas[1], kaynak |-> SRC_POD_ETA, etd |-> etd,
              logs |-> logs1, raised |-> NoError]
        ELSE [eta |-> fb.eta, kaynak |-> fb.kaynak, etd |-> etd,
              logs |-> logs1 \o fb.logs, raised |-> fb.raised]

\* -------------------------------------------------------------- main.py
\* ch.isdigit()
isdigit(ch) == ch \in DigitChars

\* canon_date_str (lines 42-49).
canon_date_str_NoFilter(x) ==
    IF ~Truthy(x) THEN <<>>
    ELSE IF lower(strip(x)) = lower(Bilinmiyor) THEN <<>>
    ELSE strip(x)

canon_date_str(x) ==
    IF ~Truthy(x) THEN <<>>
    ELSE IF lower(strip(x)) = lower(Bilinmiyor) THEN <<>>
    ELSE SelectSeq(strip(x), isdigit)

\* The texts of the note f"Tarih bilginiz degisti: {eta_old} -> {eta_new}",
\* written here in ASCII.
NOTE_PREFIX == <<"T","a","r","i","h"," ","b","i","l","g","i","n","i","z"," ","d","e","g","i","s","t","i",":"," ">>

NOTE_ARROW == <<" ","-",">"," ">>

NOTE_YOK == <<"(","y","o","k",")">>

\* prev_map.get(bl, {}).get("ETA", "")
PrevEta(prev_map, bl) ==
    IF bl \in DOMAIN prev_map THEN prev_map[bl].ETA ELSE <<>>

\* One iteration of the loop of to_rows_and_changes (lines 197-225) for
\* the result r at sheet row i: [row, changed, log_rows].
RowOf(r, prev_map, i, now_tr) ==
    LET bl == OrEmptyStrip(r.konsimento)
        eta_new == OrEmptyStrip(r.eta)
        etd_new == OrEmptyStrip(r.etd)
        kaynak == OrEmptyStrip(r.kaynak)
        eta_old == OrEmptyStrip(PrevEta(prev_map, bl))
        eta_new_cmp == canon_date_str(eta_new)
        eta_old_cmp == canon_date_str(eta_old)
        changed == eta_new_cmp # <<>> /\ eta_new_cmp # eta_old_cmp
        note == IF ~changed THEN <<>>
                ELSE IF eta_old # <<>>
                THEN NOTE_PREFIX \o eta_old \o NOTE_ARROW \o eta_new
                ELSE NOTE_PREFIX \o NOTE_YOK \o NOTE_ARROW \o eta_new
    IN  [row |-> [bl |-> bl, eta |-> eta_new, kaynak |-> kaynak,
                  etd |-> etd_new, now |-> now_tr, note |-> note],
         changed |-> IF changed THEN <<i>> ELSE <<>>,
         log_rows |-> [k \in 1..Len(r.log) |->
                          [now |-> now_tr, bl |-> bl, msg |-> r.log[k]]]]

\* to_rows_and_changes (lines 190-227): rows, changed_row_numbers and
\* log_rows of the results from position k on; enumerate starts at 2.
RECURSIVE RowsFrom(_, _, _, _)
RowsFrom(results, prev_map, k, now_tr) ==
    IF k > Len(results)
    THEN [rows |-> <<>>, changed_row_numbers |-> <<>>, log_rows |-> <<>>]
    ELSE LET one == RowOf(results[k], prev_map, k + 1, now_tr)
             rest == RowsFrom(results, prev_map, k + 1, now_tr)
         IN  [rows |-> <<one.row>> \o rest.rows,
              changed_row_numbers |-> one.changed \o rest.changed_row_numbers,
              log_rows |-> one.log_rows \o rest.log_rows]

\* A variant with enumerate(results, start=1).
to_rows_and_changes_StartOne(results, prev_map, now_tr) ==
    LET out == RowsFrom(results, prev_map, 1, now_tr)
    IN  [out EXCEPT !.changed_row_numbers =
                        [k \in 1..Len(@) |-> @[k] - 1]]

to_rows_and_changes(results, prev_map, now_tr) ==
    RowsFrom(results, prev_map, 1, now_tr)

\* DATA_HEADERS (lines 20-27), written here in ASCII.
H_BL == <<"K","o","n","s","i","m","e","n","t","o">>

H_ETA == <<"E","T","A"," ","(","D","a","t","e",")">>

H_KAYNAK == <<"K","a","y","n","a","k">>

H_ETD == <<"E","T","D">>

H_NOW == <<"C","e","k","i","m"," ","Z","a","m","a","n","i"," ","(","T","R",")">>

H_NOT == <<"N","o","t">>

DATA_HEADERS == <<H_BL, H_ETA, H_KAYNAK, H_ETD, H_NOW, H_NOT>>

\* header.index(name) if name in header else default, counted from 1.
IndexOf(header, name, default) ==
    IF \E k \in 1..Len(header) : header[k] = name
    THEN CHOOSE k \in 1..Len(header) :
            header[k] = name /\ \A j \in 1..(k - 1) : header[j] # name
    ELSE default

\* r[idx] if len(r) > idx else ""
CellOr(r, idx) == IF Len(r) >= idx THEN r[idx] ELSE <<>>

\* The loop of read_previous_map (lines 110-118) over the rows from k on:
\* a later row of a bill number replaces an earlier one.
RECURSIVE PrevFrom(_, _, _, _, _, _)
PrevFrom(rows, k, idx_bl, idx_eta, idx_etd, prev) ==
    IF k > Len(rows) THEN prev
    ELSE LET r == rows[k]
             bl == OrEmptyStrip(CellOr(r, idx_bl))
         IN  IF r = <<>> \/ Len(r) < idx_bl \/ bl = <<>>
             THEN PrevFrom(rows, k + 1, idx_bl, idx_eta, idx_etd, prev)
             ELSE PrevFrom(rows, k + 1, idx_bl, idx_eta, idx_etd,
                           (bl :> [ETA |-> CellOr(r, idx_eta),
                                   ETD |-> CellOr(r, idx_etd)]) @@ prev)

\* A variant that takes the old ETA from the ETD column.
read_previous_map_FromEtd(rows) ==
    IF rows = <<>> THEN <<>>
    ELSE PrevFrom(rows, 2, IndexOf(rows[1], H_BL, 1),
                  IndexOf(rows[1], H_ETD, 4), IndexOf(rows[1], H_ETD, 4),
                  <<>>)

\* read_previous_map (lines 100-119) of the values of the Data sheet.
read_previous_map(rows) ==
    IF rows = <<>> THEN <<>>
    ELSE PrevFrom(rows, 2, IndexOf(rows[1], H_BL, 1),
                  IndexOf(rows[1], H_ETA, 2), IndexOf(rows[1], H_ETD, 4),
                  <<>>)

\* ws.col_values(1) of a sheet with these values.
col_values(rows) == [k \in 1..Len(rows) |-> CellOr(rows[k], 1)]

\* [v.strip() for v in col[1:] if v and v.strip()]
RECURSIVE StrippedFrom(_, _)
StrippedFrom(col, k) ==
    IF k > Len(col) THEN <<>>
    ELSE (IF Truthy(col[k]) /\ strip(col[k]) # <<>>
          THEN <<strip(col[k])>> ELSE <<>>) \o StrippedFrom(col, k + 1)

BillsOfColumn(rows) == StrippedFrom(col_values(rows), 2)

\* rows.append([bl, eta_new, kaynak, etd_new, now_tr, note])
Cells(row) == <<row.bl, row.eta, row.kaynak, row.etd, row.now, row.note>>

\* write_results writes batch_size rows with each update (line 132).
batch_size == 20

Min(a, b) == IF a <= b THEN a ELSE b

\* chunk = rows[i:i + batch_size]
Chunk(rows, i) == SubSeq(rows, i + 1, Min(i + batch_size, Len(rows)))

\* A variant that starts below row 1 without room for the header.
StartRowNoHeader(i) == i + 1

\* start_row = i + 2
StartRow(i) == i + 2

\* ws.update(chunk, range_name=f"A{start_row}:F{end_row}") on a sheet with
\* these values: the rows of the range are replaced, rows between the old
\* values and the range are blank.
Updated(values, start_row, chunk) ==
    LET end_row == start_row + Len(chunk) - 1
        last == IF end_row > Len(values) THEN end_row ELSE Len(values)
    IN  [k \in 1..last |->
            IF k >= start_row /\ k <= end_row THEN chunk[k - start_row + 1]
            ELSE IF k <= Len(values) THEN values[k]
            ELSE <<>>]

\* ------------------------------------------------------ the remote data
\* Dates are opaque strings; DATE_LATE is the greater calendar date.
DATE_EARLY == <<"1","4",".","0","8">>

DATE_LATE == <<"1","5",".","0","8">>

DATE_POD == <<"2","0",".","0","9">>

DATE_FINAL == <<"0","1",".","0","9">>

EventDateValues == {None, DATE_EARLY, DATE_LATE}

AllEvents == [Description : RawDescriptions, Date : EventDateValues]

PodEtaValues == {None, DATE_POD}

RECURSIVE SeqsOfLen(_, _)
SeqsOfLen(S, n) ==
    IF n = 0 THEN {<<>>}
    ELSE {<<x>> \o t : x \in S, t \in SeqsOfLen(S, n - 1)}

ContainersWith(n) ==
    [Events : SeqsOfLen(AllEvents, n), PodEtaDate : PodEtaValues]

GeneralValues ==
    { [kind |-> "absent", FinalPodEtaDate |-> None],
      [kind |-> "null", FinalPodEtaDate |-> None],
      [kind |-> "object", FinalPodEtaDate |-> None],
      [kind |-> "object", FinalPodEtaDate |-> <<>>],
      [kind |-> "object", FinalPodEtaDate |-> DATE_FINAL] }

\* bills of a response: none, or one bill with its containers and summary.
BillsWith(containerLists) ==
    {<<>>} \cup
    {<<[ContainersInfo |-> cl, GeneralTrackingInfo |-> g]>> :
        cl \in containerLists, g \in GeneralValues}

\* What the remote source may serve in a run: bodies [bills, next], where
\* next says how Data.NextPageNumber relates to the page asked for
\* ("none": falsy, that is absent, null or 0; "same": the page itself;
\* "more": the page after it).
CONTAINER_X ==
    [Events |-> <<[Description |-> DESC_EXPORT, Date |-> DATE_EARLY]>>,
     PodEtaDate |-> None]

CONTAINER_Y ==
    [Events |-> <<[Description |-> DESC_EXPORT, Date |-> DATE_LATE]>>,
     PodEtaDate |-> DATE_POD]

\* A container without events and without a POD date of its own.
CONTAINER_Z == [Events |-> <<>>, PodEtaDate |-> None]

GENERAL_ABSENT == [kind |-> "absent", FinalPodEtaDate |-> None]

GENERAL_NULL == [kind |-> "null", FinalPodEtaDate |-> None]

GENERAL_FINAL == [kind |-> "object", FinalPodEtaDate |-> DATE_FINAL]

Bill(cl, g) == <<[ContainersInfo |-> cl, GeneralTrackingInfo |-> g]>>

\* A batch of several bills: one container, the summary null or complete.
SmallRemote ==
    [bills : {Bill(<<CONTAINER_X>>, GENERAL_NULL),
              Bill(<<CONTAINER_X>>, GENERAL_FINAL)},
     next : {"none", "more"}]

\* One bill alone: no bill data, or a bill with zero or one container and
\* the summary absent, null or complete.
FullRemote ==
    {[bills |-> <<>>, next |-> "none"]} \cup
    [bills : {Bill(cl, g) : cl \in {<<>>, <<CONTAINER_X>>, <<CONTAINER_Y>>,
                                    <<CONTAINER_Z>>},
                            g \in {GENERAL_ABSENT, GENERAL_NULL, GENERAL_FINAL}},
     next : {"none", "same", "more"}]

\* Raw error texts of the browser and of the HTTP request.
ERR_BROWSER == "Target page, context or browser has been closed"

ERR_HTTP == "500 Server Error"

\* Data.NextPageNumber of a body served for page p; 0 stands for every
\* falsy value.
NextPageNumber(next, p) ==
    CASE next = "none" -> 0
      [] next = "same" -> p
      [] next = "more" -> p + 1

\* The outcomes of requests.post ... resp.json() for page p, when the
\* source serves the bodies of R and at most MaxPages pages of a bill.
ResponsesOf(R, p) ==
    {[error |-> ERR_HTTP, bills |-> <<>>, next_page |-> 0]} \cup
    {[error |-> NoError, bills |-> b.bills,
      next_page |-> NextPageNumber(b.next, p)] :
        b \in {x \in R : x.next = "more" => p < MaxPages}}

\* Bill numbers; the second and the fourth repeat earlier ones.
BillPool == << <<"M","1">>, <<"M","2">>, <<"M","1">>, <<"M","2">> >>

\* ------------------------------------------------------------ the state
VARIABLES
    remote,     \* the bodies the remote source may serve in this run
    bl_list,    \* run_once: the bill numbers given
    runner,     \* run_once: where it is
    browser,    \* the shared browser: "none", "open", "closed"
    sem,        \* asyncio.Semaphore: its value
    thread,     \* the event loop's thread: 0, or the task inside requests.post
    task,       \* the frame of each get_eta_etd
    returned,   \* what each task(bl) returned: <<>> or <<result>>
    results,    \* what run_once returned
    rs,         \* the resolver applied to one aggregate: [phase, all_containers, bills, out]
    rc,         \* the reconciliation applied to results: [phase, results, prev_map, out]
    env,        \* the environment of main(): [sheet_id, credentials]
    sh,         \* the spreadsheet: its worksheets Input, Data, Log and the first one
    mn          \* the frame of main(): its position, its locals, the calls it made

batchVars == <<remote, bl_list, runner, browser, sem, thread, task, returned, results>>

mainVars == <<env, sh, mn>>

vars == <<remote, bl_list, runner, browser, sem, thread, task, returned, results, rs, rc,
          env, sh, mn>>

NoOut == [eta |-> Bilinmiyor, kaynak |-> Bilinmiyor, etd |-> Bilinmiyor,
          logs |-> <<>>, raised |-> NoError]

\* The values the variables of the other specifications rest at.
RsIdle == [phase |-> "idle", all_containers |-> <<>>, bills |-> <<>>, out |-> NoOut]

NoRows == [rows |-> <<>>, changed_row_numbers |-> <<>>, log_rows |-> <<>>]

RcIdle == [phase |-> "idle", results |-> <<>>, prev_map |-> <<>>, out |-> NoRows]

BatchIdle ==
    /\ remote = {}
    /\ bl_list = <<>>
    /\ runner = "idle"
    /\ browser = "none"
    /\ sem = 0
    /\ thread = 0
    /\ task = <<>>
    /\ returned = <<>>
    /\ results = <<>>

\* The frame of main() at its first line, on a Data sheet with these
\* values: pc is the call main() is at, exit says how it ended ("" while
\* it runs), left holds the values of the Data sheet when the run started
\* and calls the writes made to the Data sheet in this run.
MnFrame0(values) ==
    [pc |-> "open_sheet", exit |-> "", prev_map |-> <<>>, rows |-> <<>>,
     changed_row_numbers |-> <<>>, log_rows |-> <<>>, i |-> 0,
     left |-> values, calls |-> <<>>, formatted |-> <<>>]

NoSheet == [exists |-> FALSE, values |-> <<>>]

NoLog == [exists |-> FALSE, header |-> FALSE, appended |-> <<>>]

MainIdle ==
    /\ env = [sheet_id |-> None, credentials |-> FALSE]
    /\ sh = [input |-> NoSheet, data |-> NoSheet, log |-> NoLog, sheet1 |-> <<>>]
    /\ mn = [MnFrame0(<<>>) EXCEPT !.pc = "idle"]

\* ------------------------------------------ get_eta_etd and run_once
\* DEFAULT_CONCURRENCY = int(os.environ.get("CONCURRENCY", "8")), run here
\* with CONCURRENCY=2.
DEFAULT_CONCURRENCY == 2

\* The frame of one get_eta_etd(bl, browser, sem).  pc is the await (or the
\* blocking call) the coroutine is at; page is the state of its browser
\* page; exc names the step whose exception was raised ("" when none) and
\* escaped holds the text of an exception that left get_eta_etd.  The
\* frame is kept as it was when the coroutine ended.
Frame0 ==
    [pc |-> "acquire", page |-> "none", page_number |-> 0,
     all_containers |-> <<>>, bills |-> <<>>, next_page |-> 0,
     eta |-> Bilinmiyor, kaynak |-> Bilinmiyor, etd |-> Bilinmiyor,
     logs |-> <<>>, exc |-> "", escaped |-> NoError]

Tasks == 1..Len(bl_list)

\* The positions at which a coroutine holds a slot of the semaphore.
SlotPcs == {"new_page", "route", "goto", "cookies", "evaluate", "close", "post", "sleep"}

\* The dictionary of lines 173-179.
BillResult(bl, f) ==
    [konsimento |-> bl, eta |-> f.eta, kaynak |-> f.kaynak, etd |-> f.etd,
     log |-> f.logs]

\* A variant of the fallback that records nothing.
TaskFallbackNoLog(bl, e) ==
    [konsimento |-> bl, eta |-> Bilinmiyor, kaynak |-> Bilinmiyor,
     etd |-> Bilinmiyor, log |-> <<>>]

\* The dictionary of the except clause of task(bl), main.py lines 171-179.
TaskFallback(bl, e) ==
    [konsimento |-> bl, eta |-> Bilinmiyor, kaynak |-> Bilinmiyor,
     etd |-> Bilinmiyor, log |-> <<UstSeviyeHata(e)>>]

\* except Exception as e: logs.append(f"Hata: {e}")
Except(f, step, e) == [f EXCEPT !.logs = Append(@, Hata(e)), !.exc = step]

\* Lines 113-155 and the handler of lines 168-170: what follows the loop.
AfterLoopNoEmptyCheck(f) ==
    LET r == Resolve(f.all_containers, f.bills)
        g == [f EXCEPT !.eta = r.eta, !.kaynak = r.kaynak, !.etd = r.etd,
                       !.logs = @ \o r.logs]
    IN  IF r.raised # NoError THEN Except(g, "resolve", r.raised) ELSE g

AfterLoop(f) ==
    IF f.all_containers = <<>>
    THEN Except([f EXCEPT !.logs = Append(@, LOG_NO_CONTAINERS)],
                "empty", ERR_NO_CONTAINERS)
    ELSE LET r == Resolve(f.all_containers, f.bills)
             g == [f EXCEPT !.eta = r.eta, !.kaynak = r.kaynak, !.etd = r.etd,
                            !.logs = @ \o r.logs]
         IN  IF r.raised # NoError THEN Except(g, "resolve", r.raised) ELSE g

\* Lines 93-111: one iteration of the loop after requests.post returned
\* resp.  The frame that results is at "sleep" when the loop goes on and
\* stays at "post" when the coroutine runs to its return.
PageResultIgnoreNext(f, resp) ==
    IF resp.error # NoError THEN Except(f, "post", resp.error)
    ELSE IF resp.bills = <<>>
    THEN AfterLoop([f EXCEPT !.bills = resp.bills,
                             !.logs = IF f.page_number = 1
                                      THEN Append(@, LOG_NO_BILLS) ELSE @])
    ELSE LET g == [f EXCEPT !.bills = resp.bills,
                            !.all_containers =
                                Extend(@, resp.bills[1].ContainersInfo),
                            !.next_page = resp.next_page]
         IN  IF f.page_number >= MaxPages
             THEN AfterLoop(g)
             ELSE [g EXCEPT !.page_number = @ + 1, !.pc = "sleep"]

PageResult(f, resp) ==
    IF resp.error # NoError THEN Except(f, "post", resp.error)
    ELSE IF resp.bills = <<>>
    THEN AfterLoop([f EXCEPT !.bills = resp.bills,
                             !.logs = IF f.page_number = 1
                                      THEN Append(@, LOG_NO_BILLS) ELSE @])
    ELSE LET g == [f EXCEPT !.bills = resp.bills,
                            !.all_containers =
                                Extend(@, resp.bills[1].ContainersInfo),
                            !.next_page = resp.next_page]
         IN  IF g.next_page = 0 \/ g.next_page = g.page_number
             THEN AfterLoop(g)
             ELSE [g EXCEPT !.page_number = @ + 1, !.pc = "sleep"]

\* The coroutine goes on to its next await with frame f.
Continue(i, f) ==
    /\ task' = [task EXCEPT ![i] = f]
    /\ UNCHANGED <<sem, returned>>

\* A variant of the return that keeps the slot.
ReturnKeepSlot(i, f) ==
    /\ task' = [task EXCEPT ![i] = [f EXCEPT !.pc = "done"]]
    /\ returned' = [returned EXCEPT ![i] = <<BillResult(bl_list[i], f)>>]
    /\ UNCHANGED sem

\* return {...} of line 173: the slot is released on leaving "async with".
Return(i, f) ==
    /\ task' = [task EXCEPT ![i] = [f EXCEPT !.pc = "done"]]
    /\ returned' = [returned EXCEPT ![i] = <<BillResult(bl_list[i], f)>>]
    /\ sem' = sem + 1

\* An exception raised outside the try block leaves get_eta_etd: the slot
\* is released and task(bl) returns its fallback.
Propagate(i, f, step, e) ==
    /\ task' = [task EXCEPT ![i] =
                    [f EXCEPT !.pc = "done", !.exc = step, !.escaped = e]]
    /\ returned' = [returned EXCEPT ![i] = <<TaskFallback(bl_list[i], e)>>]
    /\ sem' = sem + 1

\* A step of the event loop resumes task i, which is at pc.
Runs(i, pc) ==
    /\ runner = "gather"
    /\ thread = 0
    /\ task[i].pc = pc

\* async with sem (line 48), then browser.new_page() is awaited.
AcquireUnbounded(i) ==
    /\ Runs(i, "acquire")
    /\ sem' = sem - 1
    /\ task' = [task EXCEPT ![i].pc = "new_page"]
    /\ UNCHANGED <<remote, bl_list, runner, browser, thread, returned, results, rs, rc, mainVars>>

Acquire(i) ==
    /\ Runs(i, "acquire")
    /\ sem > 0
    /\ sem' = sem - 1
    /\ task' = [task EXCEPT ![i].pc = "new_page"]
    /\ UNCHANGED <<remote, bl_list, runner, browser, thread, returned, results, rs, rc, mainVars>>

\* page = await browser.new_page(), the two timeouts, then page.route(...)
\* is awaited (lines 49-54).
NewPage(i) ==
    /\ Runs(i, "new_page")
    /\ \/ Continue(i, [task[i] EXCEPT !.pc = "route", !.page = "open"])
       \/ Propagate(i, task[i], "new_page", ERR_BROWSER)
    /\ UNCHANGED <<remote, bl_list, runner, browser, thread, results, rs, rc, mainVars>>

\* await page.route(...) returns; lines 56-66 up to await page.goto(...).
Route(i) ==
    /\ Runs(i, "route")
    /\ \/ Continue(i, [task[i] EXCEPT !.pc = "goto"])
       \/ Propagate(i, task[i], "route", ERR_BROWSER)
    /\ UNCHANGED <<remote, bl_list, runner, browser, thread, results, rs, rc, mainVars>>

\* await page.goto(...) returns; page.context.cookies() is awaited.
Goto(i) ==
    /\ Runs(i, "goto")
    /\ \/ Continue(i, [task[i] EXCEPT !.pc = "cookies"])
       \/ Return(i, Except(task[i], "goto", ERR_BROWSER))
    /\ UNCHANGED <<remote, bl_list, runner, browser, thread, results, rs, rc, mainVars>>

\* await page.context.cookies() returns; page.evaluate(...) is awaited.
Cookies(i) ==
    /\ Runs(i, "cookies")
    /\ \/ Continue(i, [task[i] EXCEPT !.pc = "evaluate"])
       \/ Return(i, Except(task[i], "cookies", ERR_BROWSER))
    /\ UNCHANGED <<remote, bl_list, runner, browser, thread, results, rs, rc, mainVars>>

\* await page.evaluate(...) returns; page.close() is awaited.
Evaluate(i) ==
    /\ Runs(i, "evaluate")
    /\ \/ Continue(i, [task[i] EXCEPT !.pc = "close"])
       \/ Return(i, Except(task[i], "evaluate", ERR_BROWSER))
    /\ UNCHANGED <<remote, bl_list, runner, browser, thread, results, rs, rc, mainVars>>

\* await page.close() returns; lines 75-92: the loop starts and the thread
\* enters requests.post for page 1, which does not yield.
ClosePage(i) ==
    /\ Runs(i, "close")
    /\ \/ /\ Continue(i, [task[i] EXCEPT !.pc = "post", !.page = "closed",
                                         !.page_number = 1])
          /\ thread' = i
       \/ /\ Return(i, Except(task[i], "close", ERR_BROWSER))
          /\ UNCHANGED thread
    /\ UNCHANGED <<remote, bl_list, runner, browser, results, rs, rc, mainVars>>

\* requests.post returns or raises for task i, which holds the thread; the
\* coroutine runs on to await asyncio.sleep(1.0) or to its return.
PostReturn(i) ==
    /\ runner = "gather"
    /\ thread = i
    /\ task[i].pc = "post"
    /\ \E resp \in ResponsesOf(remote, task[i].page_number) :
        LET f == PageResult(task[i], resp)
        IN  IF f.pc = "sleep" THEN Continue(i, f) ELSE Return(i, f)
    /\ thread' = 0
    /\ UNCHANGED <<remote, bl_list, runner, browser, results, rs, rc, mainVars>>

\* await asyncio.sleep(1.0) returns; the thread enters requests.post for
\* the next page.
Sleep(i) ==
    /\ Runs(i, "sleep")
    /\ Continue(i, [task[i] EXCEPT !.pc = "post"])
    /\ thread' = i
    /\ UNCHANGED <<remote, bl_list, runner, browser, results, rs, rc, mainVars>>

\* browser, pw = await init_browser(): the browser starts, or run_once
\* raises; then the semaphore is made and gather schedules the tasks.
InitBrowser ==
    /\ runner = "init_browser"
    /\ \/ /\ runner' = "gather"
          /\ browser' = "open"
       \/ /\ runner' = "raised"
          /\ UNCHANGED browser
    /\ UNCHANGED <<remote, bl_list, sem, thread, task, returned, results, rs, rc, mainVars>>

\* asyncio.gather(*[task(bl) for bl in bl_list]): the list of the values
\* the tasks returned, by position.
Gathered(rets) == [k \in 1..Len(rets) |-> rets[k][1]]

\* gather completes when every task has returned; finally: browser.close()
\* is awaited.
Gather ==
    /\ runner = "gather"
    /\ \A i \in Tasks : task[i].pc = "done"
    /\ results' = Gathered(returned)
    /\ runner' = "close"
    /\ UNCHANGED <<remote, bl_list, browser, sem, thread, task, returned, rs, rc, mainVars>>

\* await browser.close() and await pw.stop() return, and run_once returns
\* results; or one of them raises and so does run_once.
BrowserClose ==
    /\ runner = "close"
    /\ \/ /\ browser' = "closed"
          /\ runner' = "returned"
          /\ UNCHANGED results
       \/ /\ runner' = "raised"
          /\ results' = <<>>
          /\ UNCHANGED browser
    /\ UNCHANGED <<remote, bl_list, sem, thread, task, returned, rs, rc, mainVars>>

\* A batch of one to MaxBills bills.
Init ==
    /\ remote = SmallRemote
    /\ \E n \in 1..MaxBills : bl_list = SubSeq(BillPool, 1, n)
    /\ runner = "init_browser"
    /\ browser = "none"
    /\ sem = DEFAULT_CONCURRENCY
    /\ thread = 0
    /\ task = [i \in 1..Len(bl_list) |-> Frame0]
    /\ returned = [i \in 1..Len(bl_list) |-> <<>>]
    /\ results = <<>>
    /\ rs = RsIdle
    /\ rc = RcIdle
    /\ MainIdle

\* One bill, and everything the source may answer for it.
BillInit ==
    /\ remote = FullRemote
    /\ bl_list = SubSeq(BillPool, 1, 1)
    /\ runner = "init_browser"
    /\ browser = "none"
    /\ sem = DEFAULT_CONCURRENCY
    /\ thread = 0
    /\ task = [i \in 1..Len(bl_list) |-> Frame0]
    /\ returned = [i \in 1..Len(bl_list) |-> <<>>]
    /\ results = <<>>
    /\ rs = RsIdle
    /\ rc = RcIdle
    /\ MainIdle

\* The next step of task j, whatever it is.
TaskStep(j) ==
    \/ Acquire(j)
    \/ NewPage(j)
    \/ Route(j)
    \/ Goto(j)
    \/ Cookies(j)
    \/ Evaluate(j)
    \/ ClosePage(j)
    \/ PostReturn(j)
    \/ Sleep(j)

Next ==
    \/ InitBrowser
    \/ \E i \in Tasks : Acquire(i)
    \/ \E i \in Tasks : NewPage(i)
    \/ \E i \in Tasks : Route(i)
    \/ \E i \in Tasks : Goto(i)
    \/ \E i \in Tasks : Cookies(i)
    \/ \E i \in Tasks : Evaluate(i)
    \/ \E i \in Tasks : ClosePage(i)
    \/ \E i \in Tasks : PostReturn(i)
    \/ \E i \in Tasks : Sleep(i)
    \/ Gather
    \/ BrowserClose

Spec == Init /\ [][Next]_vars

SpecBill == BillInit /\ [][Next]_vars

\* A batch of one to MaxBills bills of one or several pages each.
LiveRemote ==
    [bills : {Bill(<<CONTAINER_X>>, GENERAL_FINAL)}, next : {"none", "more"}]

LiveInit ==
    /\ remote = LiveRemote
    /\ \E n \in 1..MaxBills : bl_list = SubSeq(BillPool, 1, n)
    /\ runner = "init_browser"
    /\ browser = "none"
    /\ sem = DEFAULT_CONCURRENCY
    /\ thread = 0
    /\ task = [i \in 1..Len(bl_list) |-> Frame0]
    /\ returned = [i \in 1..Len(bl_list) |-> <<>>]
    /\ results = <<>>
    /\ rs = RsIdle
    /\ rc = RcIdle
    /\ MainIdle

\* The batch under the scheduling of asyncio: the event loop resumes every
\* coroutine that is ready, requests.post returns or raises within its
\* timeout, and every awaited browser call returns or raises.
Fairness ==
    /\ WF_vars(InitBrowser)
    /\ \A i \in 1..MaxBills : WF_vars(i \in Tasks /\ TaskStep(i))
    /\ WF_vars(Gather)
    /\ WF_vars(BrowserClose)

SpecLive == LiveInit /\ [][Next]_vars /\ Fairness

\* --------------------------------------------- the resolver on its own
\* The aggregates of at most nc more containers with at most ne more events,
\* each with every summary a bill may carry.
RECURSIVE RsInputs(_, _, _)
RsInputs(agg, nc, ne) ==
    \/ /\ agg # <<>>
       /\ \E b \in BillsWith({<<>>}) :
            rs = [phase |-> "in", all_containers |-> agg, bills |-> b, out |-> NoOut]
    \/ /\ nc > 0
       /\ \E k \in 0..ne : \E c \in ContainersWith(k) :
            RsInputs(Append(agg, c), nc - 1, ne - k)

RsInit ==
    /\ RsInputs(<<>>, MaxContainers, MaxEvents)
    /\ BatchIdle
    /\ rc = RcIdle
    /\ MainIdle

RsResolve ==
    /\ rs.phase = "in"
    /\ rs' = [rs EXCEPT !.phase = "out",
                        !.out = Resolve(rs.all_containers, rs.bills)]
    /\ UNCHANGED <<batchVars, rc, mainVars>>

RsNext == RsResolve

SpecResolve == RsInit /\ [][RsNext]_vars

\* ------------------------------------------ the reconciliation on its own
\* New ETAs as get_eta_etd returns them, old ETAs as the Data sheet holds
\* them, and the time of the run.
NewEtas ==
    { None, Bilinmiyor,
      <<"1","4",".","0","8">>, <<" ","1","4","0","8">>, <<"1","5",".","0","8">> }

OldEtas ==
    { <<>>, <<" ">>, <<"B","I","L","I","N","M","I","Y","O","R">>,
      <<"1","4",".","0","8">>, <<"1","5",".","0","8"," ">> }

NOW_TR == <<"2","0","2","5","-","0","8","-","1","4"," ","0","9",":","0","0",":","0","0">>

BillNumbers == {BillPool[k] : k \in 1..Len(BillPool)}

ResultsIn ==
    [konsimento : BillNumbers, eta : NewEtas, kaynak : {SRC_POD_ETA},
     etd : {Bilinmiyor}, log : {<<LOG_NO_ETD>>}]

\* The maps read_previous_map can build: a bill number of the sheet maps
\* to the ETA and the ETD of its row.
PrevMaps ==
    UNION {[K -> [ETA : OldEtas, ETD : {Bilinmiyor}]] : K \in SUBSET BillNumbers}

RcInit ==
    /\ \E n \in 1..MaxRows : \E rr \in SeqsOfLen(ResultsIn, n) :
       \E pm \in PrevMaps :
            rc = [phase |-> "in", results |-> rr, prev_map |-> pm, out |-> NoRows]
    /\ BatchIdle
    /\ rs = RsIdle
    /\ MainIdle

RcReconcile ==
    /\ rc.phase = "in"
    /\ rc' = [rc EXCEPT !.phase = "out",
                        !.out = to_rows_and_changes(rc.results, rc.prev_map, NOW_TR)]
    /\ UNCHANGED <<batchVars, rs, mainVars>>

RcNext == RcReconcile

SpecReconcile == RcInit /\ [][RcNext]_vars

\* ------------------------------------------------------------- main()
\* Bounds of the runs of main(): the bills of the Input column, and the
\* rows handed to write_results on its own.
MaxInput == 2

MaxWriteRows == 41

SHEET_ID == <<"i","d">>

\* What a run leaves main() with.
Exit(f, how) == [f EXCEPT !.pc = "exit", !.exit = how]

\* The positions of main() at which it calls the Sheets API.
ApiPcs ==
    {"ensure_worksheet", "read_previous_map", "read_bl_list", "clear",
     "header", "chunk", "format", "append_logs"}

\* open_sheet (lines 52-59): RuntimeError without SPREADSHEET_ID, an error
\* of the credentials file or of the API otherwise.
OpenSheet ==
    /\ mn.pc = "open_sheet"
    /\ mn' = IF ~Truthy(env.sheet_id) THEN Exit(mn, "no_sheet_id")
             ELSE IF ~env.credentials THEN Exit(mn, "no_credentials")
             ELSE [mn EXCEPT !.pc = "ensure_worksheet"]
    /\ UNCHANGED <<batchVars, rs, rc, env, sh>>

\* ensure_worksheet (lines 62-70): a worksheet that is missing is added
\* with its header row.
Ensured(ws) ==
    IF ws.exists THEN ws ELSE [exists |-> TRUE, values |-> <<DATA_HEADERS>>]

\* Lines 235-236: the Data and the Log worksheet are there afterwards.
EnsureWorksheets ==
    /\ mn.pc = "ensure_worksheet"
    /\ sh' = [sh EXCEPT !.data = Ensured(@),
                        !.log = IF @.exists THEN @
                                ELSE [exists |-> TRUE, header |-> TRUE,
                                      appended |-> <<>>]]
    /\ mn' = [mn EXCEPT !.pc = "read_previous_map"]
    /\ UNCHANGED <<batchVars, rs, rc, env>>

\* prev_map = read_previous_map(ws_data) (line 239).
ReadPreviousMap ==
    /\ mn.pc = "read_previous_map"
    /\ mn' = [mn EXCEPT !.prev_map = read_previous_map(sh.data.values),
                        !.pc = "read_bl_list"]
    /\ UNCHANGED <<batchVars, rs, rc, env, sh>>

\* read_bl_list (lines 73-97): the bills of the Input sheet, else those of
\* the Data sheet, else those of the first worksheet, which is Input when
\* there is one.
read_bl_list(s) ==
    LET from_input == IF s.input.exists THEN BillsOfColumn(s.input.values)
                      ELSE <<>>
        from_data == IF s.data.exists THEN BillsOfColumn(s.data.values)
                     ELSE <<>>
        ws0 == IF s.input.exists THEN s.input.values ELSE s.sheet1
    IN  IF from_input # <<>> THEN from_input
        ELSE IF from_data # <<>> THEN from_data
        ELSE BillsOfColumn(ws0)

\* A variant of lines 242-245 that goes on with an empty list.
ReadBlListNoCheck ==
    /\ mn.pc = "read_bl_list"
    /\ bl_list' = read_bl_list(sh)
    /\ mn' = [mn EXCEPT !.pc = "run_once"]
    /\ UNCHANGED <<remote, runner, browser, sem, thread, task, returned, results,
                   rs, rc, env, sh>>

\* Lines 242-245: main() returns when the list is empty.
ReadBlList ==
    /\ mn.pc = "read_bl_list"
    /\ bl_list' = read_bl_list(sh)
    /\ mn' = IF bl_list' = <<>> THEN Exit(mn, "empty")
             ELSE [mn EXCEPT !.pc = "run_once"]
    /\ UNCHANGED <<remote, runner, browser, sem, thread, task, returned, results,
                   rs, rc, env, sh>>

\* What get_eta_etd or the fallback of task(bl) may return for a bill.
BillOutcomes(bl) ==
    { BillResult(bl, [Frame0 EXCEPT !.eta = DATE_EARLY, !.kaynak = SRC_POD_ETA,
                                    !.etd = DATE_EARLY]),
      BillResult(bl, [Frame0 EXCEPT !.eta = DATE_LATE, !.kaynak = SRC_POD_ETA,
                                    !.etd = DATE_EARLY]),
      TaskFallback(bl, ERR_BROWSER) }

\* results = asyncio.run(run_once(bl_list)) (line 250), taken as a whole:
\* one result for each bill, by position, with the browser started and
\* closed; or run_once raises, at init_browser or at browser.close().
RunOnce ==
    /\ mn.pc = "run_once"
    /\ \/ /\ \E rr \in [1..Len(bl_list) -> BillOutcomes(<<>>)] :
                results' = [k \in 1..Len(bl_list) |->
                               [rr[k] EXCEPT !.konsimento = bl_list[k]]]
          /\ runner' = "returned"
          /\ browser' = "closed"
          /\ mn' = [mn EXCEPT !.pc = "to_rows_and_changes"]
       \/ /\ \E b \in {"none", "open"} : browser' = b
          /\ runner' = "raised"
          /\ mn' = Exit(mn, "raised")
          /\ UNCHANGED results
    /\ UNCHANGED <<remote, bl_list, sem, thread, task, returned, rs, rc, env, sh>>

\* rows, changed_row_numbers, log_rows = to_rows_and_changes(...) (line 253).
ToRowsAndChanges ==
    /\ mn.pc = "to_rows_and_changes"
    /\ LET out == to_rows_and_changes(results, mn.prev_map, NOW_TR)
       IN  mn' = [mn EXCEPT
                    !.rows = [k \in 1..Len(out.rows) |-> Cells(out.rows[k])],
                    !.changed_row_numbers = out.changed_row_numbers,
                    !.log_rows = out.log_rows,
                    !.pc = "clear"]
    /\ UNCHANGED <<batchVars, rs, rc, env, sh>>

Call(op, start_row, end_row) ==
    [op |-> op, start_row |-> start_row, end_row |-> end_row]

\* ws_data.clear() (line 124): every value of the sheet goes.
WriteClear ==
    /\ mn.pc = "clear"
    /\ sh' = [sh EXCEPT !.data.values = <<>>]
    /\ mn' = [mn EXCEPT !.calls = Append(@, Call("clear", 0, 0)),
                        !.pc = "header"]
    /\ UNCHANGED <<batchVars, rs, rc, env>>

\* ws_data.update([DATA_HEADERS], "A1:F1"), and the return of line 129
\* when there are no rows.
WriteHeader ==
    /\ mn.pc = "header"
    /\ sh' = [sh EXCEPT !.data.values = Updated(@, 1, <<DATA_HEADERS>>)]
    /\ mn' = [mn EXCEPT !.calls = Append(@, Call("update", 1, 1)),
                        !.i = 0,
                        !.pc = IF mn.rows = <<>> THEN "format" ELSE "chunk"]
    /\ UNCHANGED <<batchVars, rs, rc, env>>

\* One iteration of the loop of lines 133-137.
WriteChunk ==
    /\ mn.pc = "chunk"
    /\ LET chunk == Chunk(mn.rows, mn.i)
           start_row == StartRow(mn.i)
           end_row == start_row + Len(chunk) - 1
       IN  /\ sh' = [sh EXCEPT !.data.values = Updated(@, start_row, chunk)]
           /\ mn' = [mn EXCEPT
                        !.calls = Append(@, Call("update", start_row, end_row)),
                        !.i = @ + batch_size,
                        !.pc = IF mn.i + batch_size < Len(mn.rows)
                               THEN "chunk" ELSE "format"]
    /\ UNCHANGED <<batchVars, rs, rc, env>>

\* apply_eta_change_format(ws_data, changed_row_numbers) (line 257): column
\* B of these rows is coloured.
ApplyEtaChangeFormat ==
    /\ mn.pc = "format"
    /\ mn' = [mn EXCEPT !.formatted = mn.changed_row_numbers,
                        !.pc = "append_logs"]
    /\ UNCHANGED <<batchVars, rs, rc, env, sh>>

\* append_logs(ws_log, log_rows) (lines 140-147); of the Log sheet the
\* model keeps the header and the rows appended by the latest run.
AppendLogs ==
    /\ mn.pc = "append_logs"
    /\ sh' = [sh EXCEPT !.log.header = TRUE,
                        !.log.appended = IF mn.log_rows # <<>>
                                         THEN mn.log_rows ELSE @]
    /\ mn' = Exit(mn, "done")
    /\ UNCHANGED <<batchVars, rs, rc, env>>

\* A call of the Sheets API raises: main() ends there.
ApiError ==
    /\ mn.pc \in ApiPcs
    /\ mn' = Exit(mn, "raised")
    /\ UNCHANGED <<batchVars, rs, rc, env, sh>>

\* The next run of main(), on the spreadsheet as the last run left it.
StartRun ==
    /\ mn.pc = "exit"
    /\ mn' = MnFrame0(sh.data.values)
    /\ bl_list' = <<>>
    /\ runner' = "idle"
    /\ browser' = "none"
    /\ results' = <<>>
    /\ UNCHANGED <<remote, sem, thread, task, returned, rs, rc, env, sh>>

H_INPUT == <<"B","L">>

\* Columns of bills as typed, the same bill twice in each.
InputPools ==
    { << <<"M","1">>, <<"M","1">>, <<" ","M","2">> >>,
      << <<"M","1">>, <<" ","M","2">>, <<"M","1">> >> }

\* The Input worksheets: none, an empty one, or a header and up to
\* MaxInput bills.
InputSheets ==
    {NoSheet, [exists |-> TRUE, values |-> <<>>]} \cup
    {[exists |-> TRUE,
      values |-> <<<<H_INPUT>>>> \o [k \in 1..Min(n, Len(q)) |-> <<q[k]>>]] :
        q \in InputPools, n \in 0..MaxInput}

\* A Data sheet laid out by hand, the ETA before the bill number.
LegacyData ==
    [exists |-> TRUE,
     values |-> << <<H_ETA, H_BL>>, <<DATE_LATE, <<"M","1">>>> >>]

MainInit ==
    /\ env \in [sheet_id : {None, SHEET_ID}, credentials : BOOLEAN]
    /\ \E i \in InputSheets :
       \E d \in {NoSheet, [exists |-> TRUE, values |-> <<>>], LegacyData} :
       \E first \in {<<>>, << <<H_INPUT>>, <<<<"M","2">>>> >>} :
            /\ i.exists => first = <<>>
            /\ sh = [input |-> i, data |-> d, log |-> NoLog, sheet1 |-> first]
    /\ mn = MnFrame0(sh.data.values)
    /\ BatchIdle
    /\ rs = RsIdle
    /\ rc = RcIdle

MainNext ==
    \/ OpenSheet
    \/ EnsureWorksheets
    \/ ReadPreviousMap
    \/ ReadBlList
    \/ RunOnce
    \/ ToRowsAndChanges
    \/ WriteClear
    \/ WriteHeader
    \/ WriteChunk
    \/ ApplyEtaChangeFormat
    \/ AppendLogs
    \/ ApiError
    \/ StartRun

SpecMain == MainInit /\ [][MainNext]_vars

\* write_results on its own: any rows, on a Data sheet that holds the
\* header and the rows of an earlier run, more or fewer than the new ones.
TagOf(k) == <<DigitSeq[(k \div 10) + 1], DigitSeq[(k % 10) + 1]>>

RowTagged(tag, k) ==
    <<<<tag>> \o TagOf(k), DATE_EARLY, SRC_POD_ETA, DATE_EARLY, NOW_TR, <<>>>>

RowsTagged(tag, n) == [k \in 1..n |-> RowTagged(tag, k)]

WriteInit ==
    /\ env = [sheet_id |-> SHEET_ID, credentials |-> TRUE]
    /\ \E n \in 0..MaxWriteRows : \E old \in 0..(MaxWriteRows + 1) :
        /\ sh = [input |-> NoSheet,
                 data |-> [exists |-> TRUE,
                           values |-> <<DATA_HEADERS>> \o RowsTagged("O", old)],
                 log |-> NoLog, sheet1 |-> <<>>]
        /\ mn = [MnFrame0(sh.data.values) EXCEPT
                    !.pc = "clear", !.rows = RowsTagged("N", n)]
    /\ BatchIdle
    /\ rs = RsIdle
    /\ rc = RcIdle

WriteNext ==
    \/ WriteClear
    \/ WriteHeader
    \/ WriteChunk

SpecWrite == WriteInit /\ [][WriteNext]_vars

\* ------------------------------------------------- what the claims say
\* Positions <<container, event>> of the events of an aggregate whose raw
\* description is desc, and their encounter order.
EventPositions(agg, desc) ==
    UNION {{<<c, e>> : e \in {x \in 1..Len(agg[c].Events) :
                                agg[c].Events[x].Description = desc}}
           : c \in 1..Len(agg)}

Before(p, q) == p[1] < q[1] \/ (p[1] = q[1] /\ p[2] <= q[2])

FirstOf(P) == CHOOSE p \in P : \A q \in P : Before(p, q)

LastOf(P) == CHOOSE p \in P : \A q \in P : Before(q, p)

DateAt(agg, p) == agg[p[1]].Events[p[2]].Date

\* The ETA and its label by the ordered fallback of the specification.
TierEta(agg, bills) ==
    LET pod == EventPositions(agg, DESC_POD_ETA)
        imp == EventPositions(agg, DESC_IMPORT)
        own == {c \in 1..Len(agg) : Truthy(agg[c].PodEtaDate)}
        final == IF bills # <<>> /\ bills[1].GeneralTrackingInfo.kind = "object"
                 THEN bills[1].GeneralTrackingInfo.FinalPodEtaDate
                 ELSE None
    IN  IF pod # {} THEN <<DateAt(agg, FirstOf(pod)), SRC_POD_ETA>>
        ELSE IF Truthy(final) THEN <<final, SRC_FINAL_POD_ETA>>
        ELSE IF own # {}
        THEN <<agg[CHOOSE c \in own : \A d \in own : c <= d].PodEtaDate,
               SRC_CONTAINER_POD_ETA>>
        ELSE IF imp # {} THEN <<DateAt(agg, FirstOf(imp)), SRC_IMPORT>>
        ELSE <<Bilinmiyor, Bilinmiyor>>

\* C4: the resolver's ETA and source label are those of the first matching
\* tier of the ordered fallback (POD-ETA event, summary final POD ETA,
\* container POD ETA, import-to-consignee event, Unknown), for every
\* aggregate and every summary.
C4_EtaOrderedFallback ==
    rs.phase = "out" =>
        <<rs.out.eta, rs.out.kaynak>> = TierEta(rs.all_containers, rs.bills)

\* C5: the ETD is the date of the last "export loaded on vessel" event of
\* the aggregate in encounter order, and Unknown when there is none.
C5_EtdLastMatch ==
    rs.phase = "out" =>
        LET P == EventPositions(rs.all_containers, DESC_EXPORT)
        IN  IF P = {} THEN rs.out.etd = Bilinmiyor
            ELSE rs.out.etd = DateAt(rs.all_containers, LastOf(P))

\* Two export events in two containers, the later date first: the ETD is
\* the earlier date, which is the last in encounter order.
C5_Witness ==
    /\ rs.phase = "out"
    /\ Len(rs.all_containers) = 2
    /\ \E e1 \in 1..Len(rs.all_containers[1].Events),
          e2 \in 1..Len(rs.all_containers[2].Events) :
            /\ rs.all_containers[1].Events[e1] =
                   [Description |-> DESC_EXPORT, Date |-> DATE_LATE]
            /\ rs.all_containers[2].Events[e2] =
                   [Description |-> DESC_EXPORT, Date |-> DATE_EARLY]
    /\ rs.out.etd = DATE_EARLY

\* The steps outside and inside the try block that precede the loop, and
\* the raw text of the error each step of get_eta_etd raises here.
SetupSteps == {"new_page", "route"}

SessionSteps == {"goto", "cookies", "evaluate", "close"}

ErrorTextOf(step) ==
    CASE step \in SetupSteps \cup SessionSteps -> ERR_BROWSER
      [] step = "post" -> ERR_HTTP
      [] step = "empty" -> ERR_NO_CONTAINERS
      [] step = "resolve" -> ERR_NONE_GET

AllUnknown(r) ==
    r.eta = Bilinmiyor /\ r.etd = Bilinmiyor /\ r.kaynak = Bilinmiyor

LogLines(r) == {r.log[k] : k \in 1..Len(r.log)}

\* C1: run_once returns one result per bill, in the order of the input
\* (duplicates kept), and the result of every bill that failed at some
\* step has ETA, ETD and Source Unknown and at least one diagnostic.
C1_BatchResults ==
    runner = "returned" =>
        /\ Len(results) = Len(bl_list)
        /\ \A i \in Tasks :
            /\ results[i].konsimento = bl_list[i]
            /\ task[i].exc # "" =>
                  AllUnknown(results[i]) /\ results[i].log # <<>>

\* C2: no exception leaves get_eta_etd: whatever step fails, the coroutine
\* ends by returning its own BillResult.
C2_NeverPropagates ==
    \A i \in Tasks :
        /\ task[i].escaped = NoError
        /\ task[i].pc = "done" =>
              returned[i] = <<BillResult(bl_list[i], task[i])>>

\* C3: the result of a bill one of whose steps failed has ETA, ETD and
\* Source all Unknown and a diagnostic with the raw text of the error.
C3_FailureAllUnknown ==
    \A i \in Tasks :
        (task[i].pc = "done" /\ task[i].exc # "") =>
            /\ AllUnknown(returned[i][1])
            /\ \E l \in LogLines(returned[i][1]) :
                  l[1] # "" /\ l[2] = ErrorTextOf(task[i].exc)

\* The pagination loop of bill i ran to one of its exits.
LoopEnded(i) ==
    /\ task[i].pc = "done"
    /\ task[i].exc \notin SetupSteps \cup SessionSteps \cup {"post"}

\* C7: a bill whose aggregate is empty when the loop has ended is a
\* failure: the resolver is not run (neither of its soft diagnostics is
\* recorded), ETA, ETD and Source are Unknown and the error is recorded.
C7_EmptyAggregateFails ==
    \A i \in Tasks :
        (LoopEnded(i) /\ task[i].all_containers = <<>>) =>
            /\ AllUnknown(returned[i][1])
            /\ Hata(ERR_NO_CONTAINERS) \in LogLines(returned[i][1])
            /\ LOG_NO_ETA \notin LogLines(returned[i][1])
            /\ LOG_NO_ETD \notin LogLines(returned[i][1])

\* The loop ended on page 2 by the next-page indicator, with a bill but no
\* container on either page.
C7_Witness ==
    \E i \in Tasks :
        /\ LoopEnded(i)
        /\ task[i].page_number = 2
        /\ task[i].bills # <<>>
        /\ task[i].all_containers = <<>>
        /\ AllUnknown(returned[i][1])

Holders == {i \in Tasks : task[i].pc \in SlotPcs}

\* C8: at most DEFAULT_CONCURRENCY orchestrations hold a slot; a bill
\* waiting for a slot has opened no page and asked for no page of data;
\* the slots given back are those of the bills that ended.
C8_SlotBound ==
    /\ Cardinality(Holders) <= DEFAULT_CONCURRENCY
    /\ sem = DEFAULT_CONCURRENCY - Cardinality(Holders)
    /\ \A i \in Tasks :
          task[i].pc = "acquire" =>
              task[i].page = "none" /\ task[i].page_number = 0

\* Every slot is taken and one bill waits for a slot.
C8_Witness ==
    /\ Cardinality(Holders) = DEFAULT_CONCURRENCY
    /\ \E i \in Tasks : task[i].pc = "acquire"

\* C9: while a bill waits on its navigation, on a page fetch or on the
\* pause between two pages, every other bill that holds a slot can take
\* its next step.
C9_OthersCanStep ==
    \A i \in Tasks : \A j \in Tasks \ {i} :
        (task[i].pc \in {"goto", "post", "sleep"} /\ task[j].pc \in SlotPcs)
            => ENABLED TaskStep(j)

\* C10: a page without bill data ends the loop (its diagnostic recorded on
\* page 1 only); a page whose next-page indicator is absent or is the page
\* itself ends it after its containers were appended; any other page has
\* its containers appended and the next page is asked for after the pause.
C10_PaginationStops ==
    [][\A i \in Tasks :
        /\ (task[i].pc = "post" /\ task'[i].pc # "post"
                /\ task'[i].exc # "post") =>
            LET f == task[i]
                g == task'[i]
            IN  IF g.bills = <<>>
                THEN /\ g.pc = "done"
                     /\ g.all_containers = f.all_containers
                     /\ g.page_number = f.page_number
                     /\ (LOG_NO_BILLS \in {g.logs[k] : k \in 1..Len(g.logs)})
                            <=> (f.page_number = 1)
                ELSE /\ g.all_containers =
                            f.all_containers \o g.bills[1].ContainersInfo
                     /\ IF g.next_page = 0 \/ g.next_page = f.page_number
                        THEN g.pc = "done" /\ g.page_number = f.page_number
                        ELSE g.pc = "sleep"
                                /\ g.page_number = f.page_number + 1
        /\ (task[i].pc = "sleep" /\ task'[i] # task[i]) =>
              task'[i] = [task[i] EXCEPT !.pc = "post"]
        /\ task[i].pc = "done" => task'[i] = task[i]
      ]_vars

\* Two pages were fetched, each with one container, and the loop ended by
\* the next-page indicator of page 2.
C10_Witness ==
    \E i \in Tasks :
        /\ task[i].pc = "done"
        /\ task[i].exc = ""
        /\ task[i].page_number = 2
        /\ task[i].all_containers = <<CONTAINER_Y, CONTAINER_X>>
        /\ returned[i][1].etd = DATE_EARLY

\* The digits of a text, in order; of None, none.
DigitsOnly(x) ==
    IF x = None THEN <<>> ELSE SelectSeq(x, LAMBDA ch : ch \in DigitChars)

IsFlagged(row) ==
    \E k \in 1..Len(rc.out.changed_row_numbers) :
        rc.out.changed_row_numbers[k] = row

\* C6: the result at 0-based position k has its row k+2 in the changed
\* rows exactly when the digits of its new ETA are not empty and differ
\* from the digits of the previous ETA of its bill number (nothing when the
\* bill is absent); its note is not empty exactly when the row is flagged,
\* and then shows the old value, or the placeholder when there was none.
C6_ChangedRows ==
    rc.phase = "out" =>
        /\ Len(rc.out.rows) = Len(rc.results)
        /\ \A k \in 0..(Len(rc.results) - 1) :
            LET r == rc.results[k + 1]
                new == DigitsOnly(r.eta)
                prev == PrevEta(rc.prev_map, r.konsimento)
                note == rc.out.rows[k + 1].note
            IN  /\ IsFlagged(k + 2) <=> (new # <<>> /\ new # DigitsOnly(prev))
                /\ (note # <<>>) <=> IsFlagged(k + 2)
                /\ IsFlagged(k + 2) =>
                      note = NOTE_PREFIX
                             \o (IF strip(prev) = <<>> THEN NOTE_YOK ELSE strip(prev))
                             \o NOTE_ARROW \o strip(r.eta)

\* Row 2 is not flagged although the new and the old text differ (their
\* digits agree); row 3, of a bill the sheet did not hold, is flagged.
C6_Witness ==
    /\ rc.phase = "out"
    /\ Len(rc.results) = 2
    /\ rc.results[1].eta = <<" ","1","4","0","8">>
    /\ PrevEta(rc.prev_map, rc.results[1].konsimento) = <<"1","4",".","0","8">>
    /\ rc.results[2].konsimento \notin DOMAIN rc.prev_map
    /\ rc.results[2].eta = <<"1","5",".","0","8">>
    /\ rc.out.changed_row_numbers = <<3>>
    /\ rc.out.rows[1].note = <<>>

\* C16: a bill of several pages with a container, no POD-ETA event and a
\* summary whose final POD ETA is set on every page that carried bill
\* data gets that value, labelled "Final POD ETA", whether the loop ended
\* by the next-page indicator or by a trailing page without bill data.
C16_FinalPodEtaAnyExit ==
    [][\A i \in Tasks :
        (/\ task[i].pc = "post" /\ task'[i].pc = "done"
         /\ task[i].page_number >= 2
         /\ task'[i].exc = ""
         /\ task'[i].all_containers # <<>>
         /\ EventPositions(task'[i].all_containers, DESC_POD_ETA) = {}
         /\ task[i].bills = Bill(task[i].bills[1].ContainersInfo, GENERAL_FINAL)
         /\ task'[i].bills # <<>> =>
                task'[i].bills[1].GeneralTrackingInfo = GENERAL_FINAL)
        => /\ returned'[i][1].eta = DATE_FINAL
           /\ returned'[i][1].kaynak = SRC_FINAL_POD_ETA
      ]_vars

\* C17: a source label other than Unknown comes with a non-empty ETA, and
\* the ETD is never empty: matching events whose date is missing do not
\* win.
C17_NonEmptyWins ==
    (rs.phase = "out" /\ rs.out.raised = NoError) =>
        /\ rs.out.kaynak # Bilinmiyor => Truthy(rs.out.eta)
        /\ Truthy(rs.out.etd)

\* C18: every result returned for a bill, by get_eta_etd or by the
\* fallback of task(bl), whose ETA or ETD is Unknown carries a diagnostic,
\* and its source label is Unknown exactly when its ETA is.
C18_UnknownHasDiagnostic ==
    \A i \in Tasks :
        returned[i] # <<>> =>
            LET r == returned[i][1]
            IN  /\ (r.eta = Bilinmiyor \/ r.etd = Bilinmiyor) => r.log # <<>>
                /\ (r.kaynak = Bilinmiyor) <=> (r.eta = Bilinmiyor)

\* The bill came back through the fallback of task(bl), all Unknown, with
\* the diagnostic of the fallback.
C18_Witness ==
    \E i \in Tasks :
        /\ task[i].escaped # NoError
        /\ returned[i] # <<>>
        /\ returned[i][1].eta = Bilinmiyor
        /\ returned[i][1].log = <<UstSeviyeHata(task[i].escaped)>>

AllDone ==
    \A i \in Tasks : task[i].pc = "done" /\ returned[i] # <<>>

\* C19: once the browser has started, every bill leaves the wait for a
\* slot, ends and gives its slot back, and gather completes; run_once is
\* past gather only when every bill has its result, and what it returns
\* has one result for each bill.
C19_BatchCompletes ==
    /\ (runner = "gather") ~>
            (AllDone /\ sem = DEFAULT_CONCURRENCY /\ runner # "gather")
    /\ [](runner \in {"close", "returned"} => AllDone)
    /\ [](runner = "returned" => Len(results) = Len(bl_list))

\* More bills than slots, one of them failed outside the try block, and
\* run_once returned.
C19_Witness ==
    /\ Len(bl_list) > DEFAULT_CONCURRENCY
    /\ runner = "returned"
    /\ \E i \in Tasks : task[i].escaped # NoError
    /\ \E i \in Tasks : task[i].exc = ""

OpenPages == {i \in Tasks : task[i].page = "open"}

\* C20: a bill that has ended has no page open, the pages open at any
\* time are at most DEFAULT_CONCURRENCY, and run_once has ended only with
\* the browser closed.
C20_PagesClosed ==
    /\ \A i \in Tasks : task[i].pc = "done" => task[i].page # "open"
    /\ Cardinality(OpenPages) <= DEFAULT_CONCURRENCY
    /\ runner = "returned" => browser = "closed"

\* main() has computed the rows of this run.
HasRows ==
    mn.pc \in {"clear", "header", "chunk", "format", "append_logs"}
        \/ (mn.pc = "exit" /\ mn.exit = "done")

\* The Data sheet held, when this run started, the rows that a run over
\* this bill list with these results writes.
LeftBySameRun ==
    /\ mn.left # <<>>
    /\ mn.left[1] = DATA_HEADERS
    /\ Len(mn.left) = Len(bl_list) + 1
    /\ Len(results) = Len(bl_list)
    /\ \A k \in 1..Len(bl_list) :
        /\ mn.left[k + 1][1] = bl_list[k]
        /\ mn.left[k + 1][2] = OrEmptyStrip(results[k].eta)
        /\ mn.left[k + 1][3] = OrEmptyStrip(results[k].kaynak)
        /\ mn.left[k + 1][4] = OrEmptyStrip(results[k].etd)

\* C11: a run over the bill list and with the results of the run before
\* it, on the rows that run wrote, flags no row and writes no note.
C11_SecondRunQuiet ==
    (HasRows /\ LeftBySameRun) =>
        /\ mn.changed_row_numbers = <<>>
        /\ \A k \in 1..Len(mn.rows) : mn.rows[k][6] = <<>>

\* The positions of the results whose new ETA has digits that differ from
\* those of the previous ETA of the bill.
ChangedPositions ==
    {k \in 1..Len(results) :
        LET new == DigitsOnly(results[k].eta)
        IN  new # <<>>
                /\ new # DigitsOnly(PrevEta(mn.prev_map, bl_list[k]))}

\* C12: after a completed run the Data sheet holds the header and, in row
\* n + 1, the bill at position n of the list read in that run with its
\* result; the changed rows, which are the rows coloured, are the rows
\* position + 1 of the results whose ETA changed.
C12_RowOrder ==
    (mn.pc = "exit" /\ mn.exit = "done") =>
        /\ Len(sh.data.values) = Len(bl_list) + 1
        /\ sh.data.values[1] = DATA_HEADERS
        /\ \A n \in 1..Len(bl_list) :
            /\ sh.data.values[n + 1][1] = bl_list[n]
            /\ sh.data.values[n + 1][2] = OrEmptyStrip(results[n].eta)
        /\ {mn.changed_row_numbers[k] : k \in 1..Len(mn.changed_row_numbers)}
              = {n + 1 : n \in ChangedPositions}
        /\ mn.formatted = mn.changed_row_numbers

\* A completed run over a list that names a bill twice, with the second
\* row changed.
C12_Witness ==
    /\ mn.pc = "exit" /\ mn.exit = "done"
    /\ Len(bl_list) = 2
    /\ bl_list[1] = bl_list[2]
    /\ mn.changed_row_numbers = <<3>>
    /\ sh.data.values[3][2] = DATE_LATE

\* The update calls of this run that cover sheet row r.
CallsCovering(r) ==
    {c \in 1..Len(mn.calls) :
        /\ mn.calls[c].op = "update"
        /\ mn.calls[c].start_row <= r
        /\ r <= mn.calls[c].end_row}

\* C13: when write_results has completed, the Data sheet holds the header
\* and then the rows handed over, in order, and nothing else; the sheet
\* was cleared first, and the header row and row k + 1 for the row at
\* position k were each written by one update.
C13_FullOverwrite ==
    mn.pc = "format" =>
        /\ sh.data.values = <<DATA_HEADERS>> \o mn.rows
        /\ mn.calls[1].op = "clear"
        /\ \A c \in 2..Len(mn.calls) : mn.calls[c].op = "update"
        /\ \A r \in 1..(Len(mn.rows) + 1) : Cardinality(CallsCovering(r)) = 1
        /\ \A c \in 2..Len(mn.calls) : mn.calls[c].end_row <= Len(mn.rows) + 1

\* Forty-one rows written in three chunks over a sheet that held more.
C13_Witness ==
    /\ mn.pc = "format"
    /\ Len(mn.rows) = 2 * batch_size + 1
    /\ Len(mn.left) > Len(mn.rows) + 1
    /\ Len(mn.calls) = 5

\* The rows of a sheet below its first row.
DataRows(values) == IF values = <<>> THEN <<>> ELSE Tail(values)

\* The previous map agrees with the rows a run left: a bill with one row
\* has the ETA of that row.
SingleRowAgree(left, prev_map) ==
    (left # <<>> /\ left[1] = DATA_HEADERS) =>
        \A k \in 2..Len(left) :
            (\A j \in 2..Len(left) : left[j][1] = left[k][1] => j = k) =>
                /\ left[k][1] \in DOMAIN prev_map
                /\ prev_map[left[k][1]].ETA = left[k][2]

\* C14: within a run the previous map is assigned by one step only, which
\* comes before any write of the run to the Data sheet and reads the rows
\* the sheet held when the run started; the values of the Data sheet
\* change only in the steps of write_results after it (or when the sheet
\* is first created, with its header).
C14_PrevMapBeforeWrite ==
    [][/\ mn'.prev_map # mn.prev_map =>
            \/ mn.pc = "exit"
            \/ /\ mn.pc = "read_previous_map"
               /\ mn.calls = <<>>
               /\ DataRows(sh.data.values) = DataRows(mn.left)
               /\ SingleRowAgree(mn.left, mn'.prev_map)
       /\ sh'.data.values # sh.data.values =>
            \/ mn.pc \in {"clear", "header", "chunk"}
            \/ mn.pc = "ensure_worksheet" /\ ~sh.data.exists
       /\ mn'.pc \in {"clear", "header", "chunk"} =>
            SingleRowAgree(mn.left, mn'.prev_map)
      ]_vars

\* The run diffs against the ETA the run before it wrote for a bill that
\* had one row.
C14_Witness ==
    /\ mn.pc = "clear"
    /\ Len(mn.left) = 3
    /\ mn.left[1] = DATA_HEADERS
    /\ mn.left[2][1] # mn.left[3][1]
    /\ mn.left[3][2] = DATE_LATE
    /\ mn.prev_map[mn.left[3][1]].ETA = DATE_LATE
    /\ mn.changed_row_numbers = <<3>>

\* C15: without SPREADSHEET_ID main() never gets past open_sheet, and with
\* an empty bill list it ends when the list was read: no browser was
\* started, no bill was run, and the rows of the Data sheet are those the
\* run found.
C15_AbortsBeforeWork ==
    LET untouched ==
            /\ runner = "idle"
            /\ browser = "none"
            /\ results = <<>>
            /\ task = <<>>
            /\ mn.calls = <<>>
            /\ DataRows(sh.data.values) = DataRows(mn.left)
    IN  /\ ~Truthy(env.sheet_id) =>
              mn.pc \in {"open_sheet", "exit"} /\ untouched
        /\ (bl_list = <<>> /\ mn.pc \notin
                {"open_sheet", "ensure_worksheet", "read_previous_map",
                 "read_bl_list"}) =>
              mn.pc = "exit" /\ untouched

\* The Input sheet is there, without a bill: main() returned, and so it
\* does in a later run without SPREADSHEET_ID.
C15_Witness ==
    /\ mn.pc = "exit"
    /\ mn.exit = "empty"
    /\ sh.input.exists
    /\ sh.data.exists

====
